---- MODULE Spec2Model ----
(***************************************************************************)
(* Reftype (taint) analysis of the backtracking register allocator:        *)
(* lib/src/analysis_reftypes.rs.                                           *)
(*                                                                         *)
(* One invocation of do_reftypes_analysis is modelled as a sequence of     *)
(* steps: one step per move record of the move-graph builder, one step for *)
(* the seed collection, one step per seed picked and per stack pop of the  *)
(* depth-first closure, and one step per mark_reffy call.  A second        *)
(* invocation on the same inputs, starting from the range storage left by  *)
(* the first one, can follow a completed first invocation.                 *)
(***************************************************************************)
EXTENDS Naturals, Sequences, FiniteSets

\* ------------------------------------------------------------------ bounds

\* Longest move list handed to the analysis.
MaxMoves == 3

\* ------------------------------------------------------- registers, points

\* The register class designated as the one that carries references, and one
\* other class.  (The analysis compares classes only for equality.)
RegClasses == {"I64", "F64"}

\* TypedIxVec / Vec indexing: indices of the source are zero based.
At(vec, ix) == vec[ix + 1]

IxRange(vec) == 0 .. (Len(vec) - 1)

\* InstPoint: each instruction index has a use point followed by a def point.
InstPoint_new_use(iix) == 4 * iix + 1

InstPoint_new_def(iix) == 4 * iix + 2

\* The last point of the function, for a move list of MaxMoves instructions.
LastPoint == 4 * MaxMoves + 3

\* RangeFrag: an inclusive interval of points.
Frag(first, last) == [first |-> first, last |-> last]

frag_contains_pt(frag, pt) == frag.first <= pt /\ pt <= frag.last

\* SortedRangeFrags::contains_pt (virtual ranges hold their fragments).
contains_pt(sorted_frags, pt) ==
    \E i \in 1 .. Len(sorted_frags) : frag_contains_pt(sorted_frags[i], pt)

\* SortedRangeFragIxs::contains_pt (real ranges hold indices into frag_env).
contains_pt_ixs(sorted_frag_ixs, fenv, pt) ==
    \E i \in 1 .. Len(sorted_frag_ixs) :
        frag_contains_pt(At(fenv, sorted_frag_ixs[i]), pt)

\* Reg: kind, class and index.  The register->ranges maps are indexed by the
\* index alone, whatever the class.
Reg(is_virtual, class, index) ==
    [is_virtual |-> is_virtual, class |-> class, index |-> index]

\* RangeId: a tagged index into rlr_env or vlr_env.
RangeId_new_real(rlrix) == [is_real |-> TRUE, ix |-> rlrix]

RangeId_new_virtual(vlrix) == [is_real |-> FALSE, ix |-> vlrix]

\* What a failed lookup yields instead of a RangeId (the panic of line 59).
NoRange == [is_real |-> FALSE, ix |-> 999]

\* ------------------------------------------------------------ environment

\* The liveness results the analysis borrows.  Virtual register 0 is live in
\* two ranges (vlr 0 up to the use point of instruction 0, vlr 1 from its def
\* point on), virtual register 1 in one range of two fragments (from the def
\* point of instruction 0 to the use point of instruction 1, and from the def
\* point of instruction 2 on), and real register 0 in one range of two
\* fragments that leaves out the use point of instruction 1.  A register is
\* live in at most one of its ranges at any point.
Env_frag_env == << Frag(0, 2), Frag(6, LastPoint) >>

Env_rlr_env == << [sorted_frags |-> << 0, 1 >>, is_ref |-> FALSE] >>

Env_vlr_env ==
    << [sorted_frags |-> << Frag(0, 1) >>, is_ref |-> FALSE],
       [sorted_frags |-> << Frag(2, LastPoint) >>, is_ref |-> FALSE],
       [sorted_frags |-> << Frag(2, 5), Frag(10, LastPoint) >>,
        is_ref |-> FALSE] >>

Env_reg_to_ranges_maps ==
    [rreg_to_rlrs_map |-> << << 0 >> >>,
     vreg_to_vlrs_map |-> << << 0, 1 >>, << 2 >> >>]

\* The registers a move can name: every register of the maps in the
\* reference class, and registers of the other class whose indices are those
\* of the virtual registers.
AllRegs ==
    { Reg(TRUE, c, i) : c \in RegClasses,
                        i \in IxRange(Env_reg_to_ranges_maps.vreg_to_vlrs_map) }
    \cup
    { Reg(FALSE, "I64", i) :
        i \in IxRange(Env_reg_to_ranges_maps.rreg_to_rlrs_map) }

\* The registers of the reference class, and the virtual registers of the
\* other class.
RefRegs == { r \in AllRegs : r.class = "I64" }

OtherV0 == Reg(TRUE, "F64", 0)

OtherV1 == Reg(TRUE, "F64", 1)

\* MoveInfoElem {dst, src, iix}.  The records of an instruction: every move
\* between two registers of the reference class; the move from OtherV0 to
\* OtherV1 (both of the other class); the move from OtherV1 to virtual
\* register 0 of the reference class (classes differ, dst of the reference
\* class); and the move from virtual register 1 of the reference class to
\* OtherV0 (classes differ, dst of the other class).
MoveInfoElems(iix) ==
    { [dst |-> d, src |-> s, iix |-> iix] : d \in RefRegs, s \in RefRegs }
    \cup
    { [dst |-> OtherV1, src |-> OtherV0, iix |-> iix],
      [dst |-> Reg(TRUE, "I64", 0), src |-> OtherV1, iix |-> iix],
      [dst |-> OtherV0, src |-> Reg(TRUE, "I64", 1), iix |-> iix] }

\* Move lists: the k-th record belongs to instruction k-1.
RECURSIVE MoveLists(_)
MoveLists(n) ==
    IF n = 0 THEN { << >> }
    ELSE LET shorter == MoveLists(n - 1)
         IN  shorter \cup
             { Append(l, m) : l \in { s \in shorter : Len(s) = n - 1 },
                              m \in MoveInfoElems(n - 1) }

\* Lists of reftyped vregs: distinct registers among the virtual registers of
\* the reference class and OtherV0, in any order.
RECURSIVE VRegLists(_)
VRegLists(n) ==
    IF n = 0 THEN { << >> }
    ELSE LET shorter == VRegLists(n - 1)
         IN  shorter \cup
             { Append(l, v) :
                 l \in { s \in shorter : Len(s) = n - 1 },
                 v \in { r \in RefRegs : r.is_virtual } \cup { OtherV0 } }

DistinctVRegLists ==
    { l \in VRegLists(Len(Env_reg_to_ranges_maps.vreg_to_vlrs_map)) :
        \A i, j \in 1 .. Len(l) : l[i] = l[j] => i = j }

\* ------------------------------------------------------------------ state

VARIABLES
    rlr_env,            \* real ranges: sorted_frags, is_ref
    vlr_env,            \* virtual ranges: sorted_frags, is_ref
    frag_env,           \* fragments the real ranges index
    reg_to_ranges_maps, \* rreg_to_rlrs_map, vreg_to_vlrs_map
    move_info,          \* the move list
    reftype_class,      \* the class that carries references
    reftyped_vregs,     \* the client's reftyped virtual registers
    debug_assertions,   \* whether the build evaluates debug_assert!
    pc,                 \* "build", "closure", "mark", "done", "panic"
    failure,            \* "none", "lookup" (line 59), "assert" (lines 66, 71),
                        \* "move_class" (line 138), "vreg_class" (line 166)
    mi,                 \* position of the builder loop in move_info (from 1)
    succ,               \* Map src range -> set of dst ranges
    reftyped_ranges,    \* the seed set
    todo_seeds,         \* what reftyped_ranges.iter() has still to yield
    stack,              \* the DFS stack
    visited,            \* the visited set
    todo_mark,          \* what visited.iter() has still to yield
    mark_calls,         \* per range: calls of mark_reffy in this invocation
    push_calls,         \* per range: calls of stack.push in this invocation
    pop_calls,          \* per range: times stack.pop yielded it
    run,                \* 1 in the first invocation, 2 in the second
    entry_ref           \* the ranges whose is_ref was true on entry

vars ==
    << rlr_env, vlr_env, frag_env, reg_to_ranges_maps, move_info, reftype_class,
       reftyped_vregs, debug_assertions, pc, failure, mi, succ, reftyped_ranges,
       todo_seeds, stack, visited, todo_mark, mark_calls, push_calls,
       pop_calls, run, entry_ref >>

inputs ==
    << frag_env, reg_to_ranges_maps, move_info, reftype_class, reftyped_vregs,
       debug_assertions >>

\* Every range identity of the storage.
AllRangeIds ==
    { RangeId_new_real(i) : i \in IxRange(rlr_env) }
    \cup { RangeId_new_virtual(i) : i \in IxRange(vlr_env) }

\* The is_ref flag of a range, and the set of ranges whose flag is set.
is_ref(range) ==
    IF range.is_real THEN At(rlr_env, range.ix).is_ref
    ELSE At(vlr_env, range.ix).is_ref

IsRefSet == { r \in AllRangeIds : is_ref(r) }

Min(S) == CHOOSE x \in S : \A y \in S : x <= y

\* ----------------------------------------------- the ReftypeAnalysis trait

\* find_range_id_for_reg: the first range of the register, in the order of
\* its list, that contains the point; NoRange where the source panics.
find_range_id_for_reg(pt, reg) ==
    IF ~reg.is_virtual
    THEN LET rlrs == At(reg_to_ranges_maps.rreg_to_rlrs_map, reg.index)
             hits == { i \in 1 .. Len(rlrs) :
                         contains_pt_ixs(At(rlr_env, rlrs[i]).sorted_frags,
                                         frag_env, pt) }
         IN  IF hits = {} THEN NoRange ELSE RangeId_new_real(rlrs[Min(hits)])
    ELSE LET vlrs == At(reg_to_ranges_maps.vreg_to_vlrs_map, reg.index)
             hits == { i \in 1 .. Len(vlrs) :
                         contains_pt(At(vlr_env, vlrs[i]).sorted_frags, pt) }
         IN  IF hits = {} THEN NoRange ELSE RangeId_new_virtual(vlrs[Min(hits)])

\* insert_reffy_ranges: the set with every virtual range of the vreg added.
insert_reffy_ranges_first_only(vreg, set) ==
    LET vlrs == At(reg_to_ranges_maps.vreg_to_vlrs_map, vreg.index)
    IN  set \cup { RangeId_new_virtual(vlrs[i]) : i \in 1 .. 1 }

insert_reffy_ranges_at_entry(vreg, set) ==
    LET vlrs == At(reg_to_ranges_maps.vreg_to_vlrs_map, vreg.index)
    IN  set \cup { RangeId_new_virtual(vlrs[i]) :
                     i \in { j \in 1 .. Len(vlrs) :
                               contains_pt(At(vlr_env, vlrs[j]).sorted_frags, 0) } }

insert_reffy_ranges(vreg, set) ==
    LET vlrs == At(reg_to_ranges_maps.vreg_to_vlrs_map, vreg.index)
    IN  set \cup { RangeId_new_virtual(vlrs[i]) : i \in 1 .. Len(vlrs) }

\* mark_reffy fails its debug assertion when the flag is already set and the
\* build evaluates debug assertions.
mark_reffy_asserts_always(range) == is_ref(range)

mark_reffy_asserts(range) == debug_assertions /\ is_ref(range)

\* mark_reffy: the storage after the flag of the range is set.
mark_reffy_rlr_toggle(range) ==
    IF range.is_real
    THEN [rlr_env EXCEPT ![range.ix + 1].is_ref = ~@]
    ELSE rlr_env

mark_reffy_vlr_toggle(range) ==
    IF range.is_real
    THEN vlr_env
    ELSE [vlr_env EXCEPT ![range.ix + 1].is_ref = ~@]

mark_reffy_rlr(range) ==
    IF range.is_real
    THEN [rlr_env EXCEPT ![range.ix + 1].is_ref = TRUE]
    ELSE rlr_env

mark_reffy_vlr(range) ==
    IF range.is_real
    THEN vlr_env
    ELSE [vlr_env EXCEPT ![range.ix + 1].is_ref = TRUE]

\* --------------------------------------------------------------- actions

NoCalls == [r \in AllRangeIds |-> 0]

EmptyMap == [r \in {} |-> {}]

\* The state on entry of the first invocation: the arguments, with every
\* is_ref flag false, and the locals of core_reftypes_analysis.  The reference
\* class is "I64"; the other class stands for every class that differs.  The
\* move records and the reftyped vregs are of any class: the debug assertions
\* of lines 138 and 166 are checks the code makes, not properties of its
\* arguments.
Init ==
    /\ rlr_env = Env_rlr_env
    /\ vlr_env = Env_vlr_env
    /\ frag_env = Env_frag_env
    /\ reg_to_ranges_maps = Env_reg_to_ranges_maps
    /\ move_info \in MoveLists(MaxMoves)
    /\ reftype_class = "I64"
    /\ reftyped_vregs \in DistinctVRegLists
    /\ debug_assertions \in BOOLEAN
    /\ pc = "build"
    /\ failure = "none"
    /\ mi = 1
    /\ succ = EmptyMap
    /\ reftyped_ranges = {}
    /\ todo_seeds = {}
    /\ stack = << >>
    /\ visited = {}
    /\ todo_mark = {}
    /\ mark_calls = NoCalls
    /\ push_calls = NoCalls
    /\ pop_calls = NoCalls
    /\ run = 1
    /\ entry_ref = {}

\* succ after the edge src_range -> dst_range is inserted (lines 148-157).
succ_insert_overwrite(map, src_range, dst_range) ==
    [k \in DOMAIN map \cup {src_range} |->
        IF k = src_range THEN {dst_range} ELSE map[k]]

succ_insert(map, src_range, dst_range) ==
    IF src_range \in DOMAIN map
    THEN [map EXCEPT ![src_range] = @ \cup {dst_range}]
    ELSE [k \in DOMAIN map \cup {src_range} |->
            IF k = src_range THEN {dst_range} ELSE map[k]]

\* The debug assertion of line 138 fails: the build evaluates debug
\* assertions and the classes of dst and src differ.
move_class_asserts(m) == debug_assertions /\ m.dst.class # m.src.class

\* The debug assertion of line 166 fails: the build evaluates debug
\* assertions and the vreg is not of the reference class.
vreg_class_asserts(vreg) == debug_assertions /\ vreg.class # reftype_class

\* The class test of line 139 (the builder skips a record that fails it).
is_reftype_move_unfiltered(m) == TRUE

is_reftype_move(m) == m.dst.class = reftype_class

\* The lookups of lines 142 and 143.
move_src_range_at_def(m) ==
    find_range_id_for_reg(InstPoint_new_def(m.iix), m.src)

move_src_range(m) == find_range_id_for_reg(InstPoint_new_use(m.iix), m.src)

move_dst_range_at_use(m) ==
    find_range_id_for_reg(InstPoint_new_use(m.iix), m.dst)

move_dst_range(m) == find_range_id_for_reg(InstPoint_new_def(m.iix), m.dst)

\* Whether one of the two lookups of a record panics (line 59).
lookup_panics_src_only(src_range, dst_range) == src_range = NoRange

lookup_panics(src_range, dst_range) ==
    src_range = NoRange \/ dst_range = NoRange

\* One iteration of the builder loop (lines 136-158).
BuildStep_lookup_first ==
    /\ pc = "build"
    /\ mi <= Len(move_info)
    /\ LET m == move_info[mi]
           src_range == move_src_range(m)
           dst_range == move_dst_range(m)
       IN  IF move_class_asserts(m)
           THEN /\ pc' = "panic"
                /\ failure' = "move_class"
                /\ UNCHANGED << succ, mi >>
           ELSE IF lookup_panics(src_range, dst_range)
           THEN /\ pc' = "panic"
                /\ failure' = "lookup"
                /\ UNCHANGED << succ, mi >>
           ELSE IF ~is_reftype_move(m)
                THEN /\ mi' = mi + 1
                     /\ UNCHANGED << succ, pc, failure >>
                ELSE /\ succ' = succ_insert(succ, src_range, dst_range)
                     /\ mi' = mi + 1
                     /\ UNCHANGED << pc, failure >>
    /\ UNCHANGED << rlr_env, vlr_env, inputs, reftyped_ranges, todo_seeds, stack,
                    visited, todo_mark, mark_calls, push_calls, pop_calls, run,
                    entry_ref >>

BuildStep ==
    /\ pc = "build"
    /\ mi <= Len(move_info)
    /\ LET m == move_info[mi]
       IN  IF move_class_asserts(m)
           THEN /\ pc' = "panic"
                /\ failure' = "move_class"
                /\ UNCHANGED << succ, mi >>
           ELSE IF ~is_reftype_move(m)
           THEN /\ mi' = mi + 1
                /\ UNCHANGED << succ, pc, failure >>
           ELSE LET src_range == move_src_range(m)
                    dst_range == move_dst_range(m)
                IN  IF lookup_panics(src_range, dst_range)
                    THEN /\ pc' = "panic"
                         /\ failure' = "lookup"
                         /\ UNCHANGED << succ, mi >>
                    ELSE /\ succ' = succ_insert(succ, src_range, dst_range)
                         /\ mi' = mi + 1
                         /\ UNCHANGED << pc, failure >>
    /\ UNCHANGED << rlr_env, vlr_env, inputs, reftyped_ranges, todo_seeds, stack,
                    visited, todo_mark, mark_calls, push_calls, pop_calls, run,
                    entry_ref >>

\* The seed set of a list of vregs (lines 161-168).
seed_ranges_first_vreg(vregs, set) ==
    IF vregs = << >> THEN set
    ELSE insert_reffy_ranges(Head(vregs), set)

RECURSIVE seed_ranges(_, _)
seed_ranges(vregs, set) ==
    IF vregs = << >> THEN set
    ELSE seed_ranges(Tail(vregs), insert_reffy_ranges(Head(vregs), set))

\* The position of the first vreg of the list at which the debug assertion
\* of line 166 fails, or Len + 1 when there is none.
first_bad_vreg(vregs) ==
    Min({ k \in 1 .. Len(vregs) : vreg_class_asserts(vregs[k]) }
        \cup { Len(vregs) + 1 })

\* The builder loop is over: stage (2) and the start of stage (3)
\* (lines 161-173).
CollectSeeds_empty_visited ==
    /\ pc = "build"
    /\ mi > Len(move_info)
    /\ LET bad == first_bad_vreg(reftyped_vregs)
       IN  IF bad <= Len(reftyped_vregs)
           THEN /\ reftyped_ranges' =
                      seed_ranges(SubSeq(reftyped_vregs, 1, bad - 1), {})
                /\ pc' = "panic"
                /\ failure' = "vreg_class"
                /\ UNCHANGED << visited, todo_seeds, stack >>
           ELSE /\ reftyped_ranges' = seed_ranges(reftyped_vregs, {})
                /\ visited' = {}
                /\ todo_seeds' = reftyped_ranges'
                /\ stack' = << >>
                /\ pc' = "closure"
                /\ UNCHANGED failure
    /\ UNCHANGED << rlr_env, vlr_env, inputs, mi, succ, todo_mark, mark_calls,
                    push_calls, pop_calls, run, entry_ref >>

CollectSeeds ==
    /\ pc = "build"
    /\ mi > Len(move_info)
    /\ LET bad == first_bad_vreg(reftyped_vregs)
       IN  IF bad <= Len(reftyped_vregs)
           THEN /\ reftyped_ranges' =
                      seed_ranges(SubSeq(reftyped_vregs, 1, bad - 1), {})
                /\ pc' = "panic"
                /\ failure' = "vreg_class"
                /\ UNCHANGED << visited, todo_seeds, stack >>
           ELSE /\ reftyped_ranges' = seed_ranges(reftyped_vregs, {})
                /\ visited' = reftyped_ranges'
                /\ todo_seeds' = reftyped_ranges'
                /\ stack' = << >>
                /\ pc' = "closure"
                /\ UNCHANGED failure
    /\ UNCHANGED << rlr_env, vlr_env, inputs, mi, succ, todo_mark, mark_calls,
                    push_calls, pop_calls, run, entry_ref >>

\* The next seed of the outer loop (lines 174-177), in any iteration order.
ClosureStart ==
    /\ pc = "closure"
    /\ stack = << >>
    /\ \E start_point_range \in todo_seeds :
          /\ todo_seeds' = todo_seeds \ {start_point_range}
          /\ stack' = << start_point_range >>
          /\ push_calls' = [push_calls EXCEPT ![start_point_range] = @ + 1]
    /\ UNCHANGED << rlr_env, vlr_env, inputs, pc, failure, mi, succ,
                    reftyped_ranges, visited, todo_mark, mark_calls, pop_calls,
                    run, entry_ref >>

\* The destinations of src_range that the inner loop pushes (lines 180-185).
unvisited_dsts_none(src_range, vis) == {}

unvisited_dsts_all(src_range, vis) ==
    IF src_range \in DOMAIN succ THEN succ[src_range] ELSE {}

unvisited_dsts(src_range, vis) ==
    IF src_range \in DOMAIN succ
    THEN { dst_range \in succ[src_range] : dst_range \notin vis }
    ELSE {}

\* Every order in which a set can be iterated.
Orderings(S) ==
    { s \in [1 .. Cardinality(S) -> S] :
        \A i, j \in 1 .. Cardinality(S) : s[i] = s[j] => i = j }

\* The push counts after every element of the sequence was pushed once
\* (line 183).
pushed(calls, pushes) ==
    [r \in DOMAIN calls |->
        calls[r] + Cardinality({ i \in 1 .. Len(pushes) : pushes[i] = r })]

\* One iteration of the while loop (lines 178-187): pop, visit, push.
ClosurePop_no_pop ==
    /\ pc = "closure"
    /\ stack # << >>
    /\ LET src_range == stack[Len(stack)]
       IN  /\ visited' = visited \cup {src_range}
           /\ \E pushes \in Orderings(unvisited_dsts(src_range, visited')) :
                 /\ stack' = stack \o pushes
                 /\ push_calls' = pushed(push_calls, pushes)
    /\ UNCHANGED << rlr_env, vlr_env, inputs, pc, failure, mi, succ,
                    reftyped_ranges, todo_seeds, todo_mark, mark_calls, pop_calls,
                    run, entry_ref >>

ClosurePop_mark_on_visit ==
    /\ pc = "closure"
    /\ stack # << >>
    /\ LET src_range == stack[Len(stack)]
           rest == SubSeq(stack, 1, Len(stack) - 1)
       IN  /\ visited' = visited \cup {src_range}
           /\ pop_calls' = [pop_calls EXCEPT ![src_range] = @ + 1]
           /\ rlr_env' = mark_reffy_rlr(src_range)
           /\ vlr_env' = mark_reffy_vlr(src_range)
           /\ \E pushes \in Orderings(unvisited_dsts(src_range, visited')) :
                 /\ stack' = rest \o pushes
                 /\ push_calls' = pushed(push_calls, pushes)
    /\ UNCHANGED << inputs, pc, failure, mi, succ, reftyped_ranges, todo_seeds,
                    todo_mark, mark_calls, run, entry_ref >>

ClosurePop ==
    /\ pc = "closure"
    /\ stack # << >>
    /\ LET src_range == stack[Len(stack)]
           rest == SubSeq(stack, 1, Len(stack) - 1)
       IN  /\ visited' = visited \cup {src_range}
           /\ pop_calls' = [pop_calls EXCEPT ![src_range] = @ + 1]
           /\ \E pushes \in Orderings(unvisited_dsts(src_range, visited')) :
                 /\ stack' = rest \o pushes
                 /\ push_calls' = pushed(push_calls, pushes)
    /\ UNCHANGED << rlr_env, vlr_env, inputs, pc, failure, mi, succ,
                    reftyped_ranges, todo_seeds, todo_mark, mark_calls, run,
                    entry_ref >>

\* Both loops of stage (3) are over; the final loop starts (line 191).
ClosureDone ==
    /\ pc = "closure"
    /\ stack = << >>
    /\ todo_seeds = {}
    /\ pc' = "mark"
    /\ todo_mark' = visited
    /\ UNCHANGED << rlr_env, vlr_env, inputs, failure, mi, succ, reftyped_ranges,
                    todo_seeds, stack, visited, mark_calls, push_calls, pop_calls,
                    run, entry_ref >>

\* One iteration of the final loop (lines 191-193): one call of mark_reffy.
MarkStep_no_advance ==
    /\ pc = "mark"
    /\ \E range \in todo_mark :
          /\ mark_calls' = [mark_calls EXCEPT ![range] = @ + 1]
          /\ IF mark_reffy_asserts(range)
             THEN /\ pc' = "panic"
                  /\ failure' = "assert"
                  /\ UNCHANGED << rlr_env, vlr_env, todo_mark >>
             ELSE /\ rlr_env' = mark_reffy_rlr(range)
                  /\ vlr_env' = mark_reffy_vlr(range)
                  /\ UNCHANGED << pc, failure, todo_mark >>
    /\ UNCHANGED << inputs, mi, succ, reftyped_ranges, todo_seeds, stack, visited,
                    push_calls, pop_calls, run, entry_ref >>

MarkStep ==
    /\ pc = "mark"
    /\ \E range \in todo_mark :
          /\ mark_calls' = [mark_calls EXCEPT ![range] = @ + 1]
          /\ IF mark_reffy_asserts(range)
             THEN /\ pc' = "panic"
                  /\ failure' = "assert"
                  /\ UNCHANGED << rlr_env, vlr_env, todo_mark >>
             ELSE /\ rlr_env' = mark_reffy_rlr(range)
                  /\ vlr_env' = mark_reffy_vlr(range)
                  /\ todo_mark' = todo_mark \ {range}
                  /\ UNCHANGED << pc, failure >>
    /\ UNCHANGED << inputs, mi, succ, reftyped_ranges, todo_seeds, stack, visited,
                    push_calls, pop_calls, run, entry_ref >>

\* The final loop is over: core_reftypes_analysis returns.
MarkDone ==
    /\ pc = "mark"
    /\ todo_mark = {}
    /\ pc' = "done"
    /\ UNCHANGED << rlr_env, vlr_env, inputs, failure, mi, succ, reftyped_ranges,
                    todo_seeds, stack, visited, todo_mark, mark_calls, push_calls,
                    pop_calls, run, entry_ref >>

\* do_reftypes_analysis is called a second time with the same arguments, on
\* the range storage the first call left (lines 86-105).
Rerun ==
    /\ pc = "done"
    /\ run = 1
    /\ run' = 2
    /\ entry_ref' = IsRefSet
    /\ pc' = "build"
    /\ mi' = 1
    /\ succ' = EmptyMap
    /\ reftyped_ranges' = {}
    /\ todo_seeds' = {}
    /\ stack' = << >>
    /\ visited' = {}
    /\ todo_mark' = {}
    /\ mark_calls' = NoCalls
    /\ push_calls' = NoCalls
    /\ pop_calls' = NoCalls
    /\ UNCHANGED << rlr_env, vlr_env, inputs, failure >>

\* The steps of one invocation.
Step ==
    \/ BuildStep
    \/ CollectSeeds
    \/ ClosureStart
    \/ ClosurePop
    \/ ClosureDone
    \/ MarkStep
    \/ MarkDone

Next == Step \/ Rerun

Spec == Init /\ [][Next]_vars

\* The inputs whose move lists hold reference-class records only: the move
\* graphs of the closure come from these records alone.  A source or a
\* reftyped vreg of the other class is among them in the builds that check
\* for it (lines 138, 166), with at most one reftyped vreg; in the other
\* builds it goes through the closure as the reference-class register of its
\* index does.
FairInit ==
    /\ Init
    /\ \A k \in 1 .. Len(move_info) : is_reftype_move(move_info[k])
    /\ \/ debug_assertions /\ Len(reftyped_vregs) <= 1
       \/ /\ \A k \in 1 .. Len(move_info) :
                move_info[k].src.class = move_info[k].dst.class
          /\ \A k \in 1 .. Len(reftyped_vregs) :
                reftyped_vregs[k].class = reftype_class

\* The analysis is synchronous code: an invocation that can step does step.
FairSpec == FairInit /\ [][Next]_vars /\ WF_vars(Step)

\* ---------------------------------------------------- what the claims name

\* The ranges on which mark_reffy was called in this invocation.
MarkedSet == { r \in AllRangeIds : mark_calls[r] > 0 }

\* The seed ranges, read off the inputs: every virtual range listed for a
\* supplied reftyped vreg.
SeedSet ==
    { RangeId_new_virtual(v) :
        v \in { w \in IxRange(vlr_env) :
                  \E k \in 1 .. Len(reftyped_vregs) :
                     \E i \in 1 .. Len(At(reg_to_ranges_maps.vreg_to_vlrs_map,
                                          reftyped_vregs[k].index)) :
                        At(reg_to_ranges_maps.vreg_to_vlrs_map,
                           reftyped_vregs[k].index)[i] = w } }

\* Range r is a range of register reg and contains point pt.
Covers(r, reg, pt) ==
    IF reg.is_virtual
    THEN /\ ~r.is_real
         /\ \E i \in 1 .. Len(At(reg_to_ranges_maps.vreg_to_vlrs_map, reg.index)) :
               At(reg_to_ranges_maps.vreg_to_vlrs_map, reg.index)[i] = r.ix
         /\ contains_pt(At(vlr_env, r.ix).sorted_frags, pt)
    ELSE /\ r.is_real
         /\ \E i \in 1 .. Len(At(reg_to_ranges_maps.rreg_to_rlrs_map, reg.index)) :
               At(reg_to_ranges_maps.rreg_to_rlrs_map, reg.index)[i] = r.ix
         /\ contains_pt_ixs(At(rlr_env, r.ix).sorted_frags, frag_env, pt)

\* The edges that the records of a move list define, whatever their class:
\* s -> d when a record has its source covered by s at the use point and its
\* destination covered by d at the def point.
EdgesOf(moves) ==
    { e \in AllRangeIds \X AllRangeIds :
        \E k \in 1 .. Len(moves) :
           /\ Covers(e[1], moves[k].src, InstPoint_new_use(moves[k].iix))
           /\ Covers(e[2], moves[k].dst, InstPoint_new_def(moves[k].iix)) }

IsRefClass(m) == m.dst.class = reftype_class

\* The edges of the reference-class records of a move list.
RefEdges(moves) == EdgesOf(SelectSeq(moves, IsRefClass))

\* The move graph of the claims: the edges of the reference-class moves.
MoveEdges == RefEdges(move_info)

\* A move list without its k-th record.
Without(moves, k) ==
    SubSeq(moves, 1, k - 1) \o SubSeq(moves, k + 1, Len(moves))

\* The edges of succ.
SuccEdges == { e \in AllRangeIds \X AllRangeIds :
                 e[1] \in DOMAIN succ /\ e[2] \in succ[e[1]] }

\* Everything reachable from S by zero or more edges of E.
RECURSIVE ReachFrom(_, _)
ReachFrom(S, E) ==
    LET N == S \cup { e[2] : e \in { x \in E : x[1] \in S } }
    IN  IF N = S THEN S ELSE ReachFrom(N, E)

\* A record of the reference class with a register that no range covers at
\* the point the builder looks it up.
BadMove(m) ==
    /\ IsRefClass(m)
    /\ \/ \A r \in AllRangeIds : ~Covers(r, m.src, InstPoint_new_use(m.iix))
       \/ \A r \in AllRangeIds : ~Covers(r, m.dst, InstPoint_new_def(m.iix))

BadPositions == { k \in 1 .. Len(move_info) : BadMove(move_info[k]) }

\* ----------------------------------------------------------------- claims

\* C1: when the analysis returns, the ranges on which mark_reffy was called
\* are exactly the ranges reachable from the seed ranges by zero or more
\* edges of the move graph of the reference-class moves.
C1_MarkedIsReachable ==
    pc = "done" => MarkedSet = ReachFrom(SeedSet, MoveEdges)

\* A chain r1 -> r2 -> r3 seeded at r1 alone: r1, r2, r3 marked, r4 not.
C1_Witness ==
    /\ pc = "done"
    /\ \E r1, r2, r3, r4 \in AllRangeIds :
          /\ Cardinality({r1, r2, r3, r4}) = 4
          /\ SeedSet = {r1}
          /\ << r1, r2 >> \in MoveEdges
          /\ << r2, r3 >> \in MoveEdges
          /\ << r1, r3 >> \notin MoveEdges
          /\ MarkedSet = {r1, r2, r3}
          /\ ~is_ref(r4)

\* C2: whenever the analysis completes, every seed range is visited and has
\* its is_ref flag set.
C2_Reflexivity ==
    pc = "done" => (SeedSet \subseteq visited /\ SeedSet \subseteq IsRefSet)

\* Completed with a seed that has no outgoing edge and is the destination of
\* another seed.
C2_Witness ==
    /\ pc = "done"
    /\ \E s1, s2 \in SeedSet :
          /\ s1 # s2
          /\ << s1, s2 >> \in MoveEdges
          /\ s2 \notin DOMAIN succ
          /\ is_ref(s2)

\* C3: the class of a record is the class of its destination (line 139).  A
\* builder step on a record of another class leaves succ as it is and goes
\* on to the next record (in a build with debug assertions it panics at line
\* 138 instead when the source is not of the destination's class), no edge
\* of succ comes from such a record alone, and the marked set of a completed
\* analysis is the one of the move list without that record.
C3_ClassFiltering ==
    /\ [][(pc = "build" /\ mi <= Len(move_info)
              /\ move_info[mi].dst.class # reftype_class)
            => /\ succ' = succ
               /\ IF debug_assertions
                     /\ move_info[mi].src.class # move_info[mi].dst.class
                  THEN pc' = "panic" /\ failure' = "move_class" /\ mi' = mi
                  ELSE pc' = "build" /\ failure' = "none" /\ mi' = mi + 1]_vars
    /\ [](pc = "done" =>
            \A k \in 1 .. Len(move_info) :
               ~IsRefClass(move_info[k]) =>
                  MarkedSet = ReachFrom(SeedSet, RefEdges(Without(move_info, k))))
    /\ [](\A s \in DOMAIN succ : \A d \in succ[s] : << s, d >> \in MoveEdges)

\* Completed with a record of another class that names a seeded register as
\* its source and would, in the reference class, have marked one more range.
C3_Witness ==
    /\ pc = "done"
    /\ \E k \in 1 .. Len(move_info) :
          /\ ~IsRefClass(move_info[k])
          /\ move_src_range(move_info[k]) \in SeedSet
          /\ move_dst_range(move_info[k]) \in AllRangeIds \ MarkedSet

\* C4: with a reference-class record whose source or destination has no
\* covering range, the analysis never gets past that record: it is still in
\* the builder loop at or before the first such record, or it has panicked in
\* the lookup of that record, or, in a build with debug assertions, it has
\* panicked at line 138 on a record at or before it whose source and
\* destination differ in class; no is_ref flag differs from its value on
\* entry and mark_reffy was not called.
C4_FatalPath ==
    [](LET bad == BadPositions
       IN  bad # {} =>
              /\ IsRefSet = entry_ref
              /\ MarkedSet = {}
              /\ mi <= Min(bad)
              /\ \/ pc = "build" /\ failure = "none"
                 \/ pc = "panic" /\ failure = "lookup" /\ mi = Min(bad)
                 \/ /\ pc = "panic"
                    /\ failure = "move_class"
                    /\ debug_assertions
                    /\ move_info[mi].dst.class # move_info[mi].src.class)

\* Panicked in the lookup of the last record, after two edges were inserted.
C4_Witness ==
    /\ pc = "panic"
    /\ failure = "lookup"
    /\ BadPositions = {Len(move_info)}
    /\ Cardinality(DOMAIN succ) = 2

\* C5 as stated: the second run on the storage left by the first one
\* completes and leaves the same set of ranges with is_ref = true.
C5_Original ==
    run = 2 => (pc # "panic" /\ (pc = "done" => IsRefSet = entry_ref))

\* C5, amended: in every state of the second run the ranges with is_ref =
\* true are those the first run left, and the second run visits them again;
\* it completes in a build without debug assertions or when the first run
\* marked nothing, and otherwise ends in the debug assertion of mark_reffy at
\* its first call.
C5_SecondRun ==
    run = 2 =>
        /\ IsRefSet = entry_ref
        /\ pc = "panic" =>
              (debug_assertions /\ failure = "assert" /\ entry_ref # {}
                 /\ Cardinality(MarkedSet) = 1)
        /\ pc = "mark" => visited = entry_ref
        /\ pc = "done" =>
              (visited = entry_ref /\ (~debug_assertions \/ entry_ref = {}))

\* The second run completed over ranges that the first run had marked.
C5_Witness ==
    run = 2 /\ pc = "done" /\ Cardinality(entry_ref) >= 2 /\ IsRefSet = entry_ref

\* C6 as stated: a call of mark_reffy on a range whose flag is already set
\* does not fail and leaves every flag as it is.
C6_Original ==
    [][\A r \in AllRangeIds :
          (mark_calls'[r] = mark_calls[r] + 1 /\ is_ref(r))
            => (pc' # "panic" /\ IsRefSet' = IsRefSet)]_vars

\* C6, amended: a call of mark_reffy on a range whose flag is already set
\* leaves every flag as it is; it fails (the debug assertion) exactly in a
\* build with debug assertions.
C6_MarkAgain ==
    [][\A r \in AllRangeIds :
          (mark_calls'[r] = mark_calls[r] + 1 /\ is_ref(r))
            => /\ IsRefSet' = IsRefSet
               /\ (pc' = "panic") <=> debug_assertions
               /\ (pc' = "panic") => failure' = "assert"]_vars

\* mark_reffy was called on a range marked before, and did not fail.
C6_Witness ==
    /\ ~debug_assertions
    /\ pc = "mark"
    /\ \E r \in entry_ref : mark_calls[r] = 1 /\ is_ref(r)

\* C7: in one invocation mark_reffy is called at most once per range, and
\* when the analysis returns exactly once for each member of visited; when no
\* flag was set on entry, no call fails the assertion.
C7_MarkedOnce ==
    /\ \A r \in AllRangeIds : mark_calls[r] <= 1
    /\ pc = "done" =>
          \A r \in AllRangeIds : (mark_calls[r] = 1) <=> (r \in visited)
    /\ entry_ref = {} => failure # "assert"

\* A build with debug assertions returned after marking three ranges.
C7_Witness ==
    /\ debug_assertions
    /\ pc = "done"
    /\ entry_ref = {}
    /\ Cardinality(visited) >= 3
    /\ \A r \in visited : mark_calls[r] = 1

\* C8: whatever the order in which seeds and destinations were iterated,
\* once the closure loops are over visited is the set of ranges reachable
\* from reftyped_ranges in succ.
C8_Determinism ==
    pc \in {"mark", "done"} => visited = ReachFrom(reftyped_ranges, SuccEdges)

\* The closure is over for two seeds and a visited source with two
\* destinations, so that there was more than one order to choose from.
C8_Witness ==
    /\ pc = "mark"
    /\ Cardinality(reftyped_ranges) >= 2
    /\ \E s \in DOMAIN succ :
          /\ Cardinality(succ[s] \ reftyped_ranges) >= 2
          /\ s \in visited

\* C9 as stated: the only outcome of an invocation other than its return is
\* the fatal lookup failure.
C9_Original == pc = "panic" => failure = "lookup"

\* C9, amended: the closure loops always reach the state with an empty stack
\* and all seeds processed, and the final loop then ends in the return or in
\* the failed debug assertion of mark_reffy; an invocation that panics does
\* so in a lookup or, in a build with debug assertions, in one of three
\* assertions: the one of mark_reffy, when it is handed ranges already
\* marked; the one of line 138, at a record whose source and destination
\* differ in class; the one of line 166, when a reftyped vreg is not of the
\* reference class.
C9_Termination ==
    /\ (pc = "closure") ~> (pc = "mark" /\ stack = << >> /\ todo_seeds = {})
    /\ (pc = "mark") ~> (pc = "done" \/ (pc = "panic" /\ failure = "assert"))
    /\ [](pc = "panic" =>
            \/ failure = "lookup"
            \/ failure = "assert" /\ debug_assertions /\ entry_ref # {}
            \/ /\ failure = "move_class"
               /\ debug_assertions
               /\ move_info[mi].dst.class # move_info[mi].src.class
            \/ /\ failure = "vreg_class"
               /\ debug_assertions
               /\ mi = Len(move_info) + 1
               /\ \E k \in 1 .. Len(reftyped_vregs) :
                     reftyped_vregs[k].class # reftype_class)

\* The analysis returned over a move graph with a self-edge and a cycle of
\* two ranges, all visited.
C9_Witness ==
    /\ pc = "done"
    /\ \E a, b \in visited :
          /\ a # b
          /\ << a, b >> \in SuccEdges
          /\ << b, a >> \in SuccEdges
    /\ \E c \in visited : << c, c >> \in SuccEdges

\* C10: no step clears an is_ref flag, and every flag that was set on entry
\* is set in every state of the invocation.
C10_NeverCleared ==
    /\ [][IsRefSet \subseteq IsRefSet']_vars
    /\ [](entry_ref \subseteq IsRefSet)

\* The second invocation, halfway through its final loop.
C10_Witness ==
    /\ run = 2
    /\ pc = "mark"
    /\ entry_ref # {}
    /\ todo_mark # {}
    /\ todo_mark # visited

\* Range r is the source range or the destination range of a reference-class
\* record of the move list.
Touched(r) ==
    \E k \in 1 .. Len(move_info) :
       /\ IsRefClass(move_info[k])
       /\ \/ Covers(r, move_info[k].src, InstPoint_new_use(move_info[k].iix))
          \/ Covers(r, move_info[k].dst, InstPoint_new_def(move_info[k].iix))

\* C11: with an empty move list, a completed analysis has called mark_reffy
\* on exactly the virtual ranges listed for the supplied reftyped vregs, and
\* these are the only ranges whose is_ref flag is set; no real range is.
C11_NoMoves ==
    (pc = "done" /\ move_info = << >>) =>
        /\ MarkedSet = SeedSet
        /\ IsRefSet = SeedSet
        /\ \A r \in IsRefSet : ~r.is_real

\* Completed with no moves and both vregs supplied: three virtual ranges are
\* marked and the real range is not.
C11_Witness ==
    /\ pc = "done"
    /\ move_info = << >>
    /\ Len(reftyped_vregs) = 2
    /\ Cardinality(IsRefSet) = 3
    /\ ~is_ref(RangeId_new_real(0))

\* C12: a range that is no seed and neither the source range nor the
\* destination range of a reference-class move is never handed to mark_reffy
\* and keeps the is_ref value it had on entry.
C12_Isolation ==
    [](\A r \in AllRangeIds :
          \/ mark_calls[r] = 0 /\ (is_ref(r) <=> r \in entry_ref)
          \/ r \in SeedSet
          \/ Touched(r))

\* Completed with three ranges marked over two reference-class moves while
\* the fourth range, untouched and unseeded, is unmarked.
C12_Witness ==
    /\ pc = "done"
    /\ Cardinality(MarkedSet) = 3
    /\ Cardinality(MoveEdges) = 2
    /\ \E r \in AllRangeIds :
          r \notin SeedSet /\ ~Touched(r) /\ ~is_ref(r)

\* The edges of succ that end in r.
InEdges(r) == { << s, r >> : s \in { x \in DOMAIN succ : r \in succ[x] } }

RECURSIVE SumOver(_, _)
SumOver(S, f) ==
    IF S = {} THEN 0
    ELSE LET x == CHOOSE y \in S : TRUE
         IN  f[x] + SumOver(S \ {x}, f)

\* The range identities of the move graph and of the seed set.
Vertices ==
    reftyped_ranges \cup DOMAIN succ \cup UNION { succ[s] : s \in DOMAIN succ }

\* The number of edges of succ.
EdgeCount == SumOver(DOMAIN succ, [s \in DOMAIN succ |-> Cardinality(succ[s])])

\* The pops of this invocation.
PopTotal == SumOver(AllRangeIds, pop_calls)

\* C13 as stated: each range identity is pushed at most once per invocation,
\* and so popped and expanded at most once.
C13_Original ==
    \A r \in AllRangeIds : push_calls[r] <= 1 /\ pop_calls[r] <= 1

\* C13, amended: a push of a range happens while the range is not in visited,
\* except the push of a seed by the outer loop, which happens once per seed;
\* a range is pushed at most once per edge of succ that ends in it (and once
\* more if it is a seed), and a pop of a range that was popped before pushes
\* nothing.
C13_PushedWhileUnvisited ==
    /\ [][\A r \in AllRangeIds :
             push_calls'[r] > push_calls[r] =>
                \/ r \notin visited'
                \/ stack = << >> /\ r \in todo_seeds /\ push_calls[r] = 0]_vars
    /\ [][\A r \in AllRangeIds :
             (pop_calls'[r] = pop_calls[r] + 1 /\ pop_calls[r] >= 1) =>
                push_calls' = push_calls]_vars
    /\ [](\A r \in AllRangeIds :
             /\ r \in reftyped_ranges => push_calls[r] <= 1
             /\ \/ push_calls[r] = 0
                \/ push_calls[r] <=
                      Cardinality(InEdges(r))
                        + (IF r \in reftyped_ranges THEN 1 ELSE 0)
             /\ pop_calls[r] <= push_calls[r])

\* The closure is over and a range was pushed twice and popped twice.
C13_Witness ==
    /\ pc = "mark"
    /\ \E r \in AllRangeIds : push_calls[r] = 2 /\ pop_calls[r] = 2

\* C14: the pops of one invocation never exceed the number of range
\* identities of the move graph and the seed set plus the number of edges of
\* the move graph.
C14_WorkBound ==
    [](PopTotal <= Cardinality(Vertices) + EdgeCount)

\* The closure is over after more pops than there are range identities.
C14_Witness ==
    /\ pc = "mark"
    /\ PopTotal > Cardinality(Vertices)
    /\ EdgeCount = 3

\* C15: the builder loop, the seed collection and the closure leave the range
\* storage as it was; an is_ref flag changes only in a step of the final
\* loop, which starts when the closure is over for every seed; and until then
\* the flags are those of entry and mark_reffy was not called.
C15_PhaseOrdering ==
    /\ [][(pc \in {"build", "closure"}) =>
             (rlr_env' = rlr_env /\ vlr_env' = vlr_env)]_vars
    /\ [][(rlr_env' # rlr_env \/ vlr_env' # vlr_env) =>
             (pc = "mark" /\ stack = << >> /\ todo_seeds = {})]_vars
    /\ [](pc \in {"build", "closure"} =>
             (IsRefSet = entry_ref /\ MarkedSet = {}))

\* The closure has visited a range that is not a seed, work is left on the
\* stack, and no flag is set.
C15_Witness ==
    /\ pc = "closure"
    /\ stack # << >>
    /\ visited \ reftyped_ranges # {}
    /\ reftyped_ranges # {}
    /\ IsRefSet = {}

\* The pairs that the first n records of move_info resolve to, by the lookups
\* of the builder loop: the records of the reference class only.
ResolvedPairs(n) ==
    { << move_src_range(move_info[k]), move_dst_range(move_info[k]) >> :
        k \in { j \in 1 .. n : is_reftype_move(move_info[j]) } }

\* C16: after the builder loop, d is in succ[s] exactly when some
\* reference-class record of move_info resolves to the pair (s, d), and no
\* key of succ has an empty set; while the loop runs, and after a panic in
\* it, the same holds of the records it has processed.
C16_MoveGraph ==
    [](LET pairs == ResolvedPairs(IF pc \in {"build", "panic"}
                                  THEN mi - 1 ELSE Len(move_info))
       IN  /\ \A s \in DOMAIN succ : succ[s] # {}
           /\ \A s \in DOMAIN succ : \A d \in succ[s] : << s, d >> \in pairs
           /\ \A e \in pairs : e[1] \in DOMAIN succ /\ e[2] \in succ[e[1]])

\* Fan-out: after the builder loop a source range has two destinations.
C16_Witness ==
    /\ pc = "closure"
    /\ \E s \in DOMAIN succ : Cardinality(succ[s]) = 2

\* A repeated pair: three reference-class records gave two edges.
C16_RepeatedPair ==
    /\ pc = "closure"
    /\ Len(move_info) = 3
    /\ \A k \in 1 .. 3 : is_reftype_move(move_info[k])
    /\ Cardinality(SuccEdges) = 2

\* C17: an iteration of the builder loop that processes a reference-class
\* record without a panic adds to succ the one edge from the range of the
\* source register that contains the use point of the record's instruction
\* to the range of the destination register that contains its def point, and
\* no other edge.
C17_PointResolution ==
    [][(pc = "build" /\ mi' = mi + 1 /\ is_reftype_move(move_info[mi])) =>
          \E s, d \in AllRangeIds :
             /\ Covers(s, move_info[mi].src,
                       InstPoint_new_use(move_info[mi].iix))
             /\ Covers(d, move_info[mi].dst,
                       InstPoint_new_def(move_info[mi].iix))
             /\ SuccEdges' = SuccEdges \cup { << s, d >> }]_vars

\* The first record moves a vreg to itself at instruction 0, where one range
\* of the vreg ends at the use point and another starts at the def point: the
\* edge goes from the first range to the second.
C17_Witness ==
    /\ pc = "build"
    /\ mi = 2
    /\ move_info[1].src = move_info[1].dst
    /\ SuccEdges = { << RangeId_new_virtual(0), RangeId_new_virtual(1) >> }

\* C18: from the end of the seed collection on, the seed set of the analysis
\* is the set of all virtual ranges that vreg_to_vlrs_map lists for the
\* vregs of reftyped_vregs, whatever the points of the ranges and whatever
\* the move list, and whatever the class of the vreg in a build without
\* debug assertions; a completed analysis has called mark_reffy once on each
\* of them.  In a build with debug assertions a reftyped vreg that is not of
\* the reference class ends the analysis at line 166, with no range visited
\* or marked.
C18_SeedCollection ==
    /\ [](pc \in {"closure", "mark", "done"} => reftyped_ranges = SeedSet)
    /\ [](pc = "done" => \A r \in SeedSet : mark_calls[r] = 1)
    /\ [][(pc = "build" /\ mi > Len(move_info) /\ debug_assertions
              /\ \E k \in 1 .. Len(reftyped_vregs) :
                    reftyped_vregs[k].class # reftype_class)
            => (pc' = "panic" /\ failure' = "vreg_class"
                  /\ visited' = {} /\ IsRefSet' = IsRefSet)]_vars

\* Completed on a nonempty move list, with one reftyped vreg that has two
\* ranges: a move touches one of them, no move touches the other, and both
\* are marked.
C18_Witness ==
    /\ pc = "done"
    /\ move_info # << >>
    /\ Len(reftyped_vregs) = 1
    /\ \E r1, r2 \in SeedSet :
          /\ Touched(r1)
          /\ ~Touched(r2)
          /\ is_ref(r1)
          /\ is_ref(r2)

\* C19: in every state of the closure stage the seed set is a subset of
\* visited and every member of visited is reachable from a seed by zero or
\* more edges of succ; and no step taken in the closure stage removes a
\* member of visited.
C19_VisitedInvariant ==
    /\ [](pc = "closure" =>
             /\ reftyped_ranges \subseteq visited
             /\ visited \subseteq ReachFrom(reftyped_ranges, SuccEdges))
    /\ [][(pc = "closure") => visited \subseteq visited']_vars

\* In the middle of the closure: visited holds a range that is not a seed
\* and does not yet hold every range reachable from the seeds.
C19_Witness ==
    /\ pc = "closure"
    /\ reftyped_ranges # {}
    /\ visited \ reftyped_ranges # {}
    /\ ReachFrom(reftyped_ranges, SuccEdges) \ visited # {}

\* A record with a register that no range covers at the point where the
\* builder would look it up, whatever the class of the record.
Uncovered(m) ==
    \/ \A r \in AllRangeIds : ~Covers(r, m.src, InstPoint_new_use(m.iix))
    \/ \A r \in AllRangeIds : ~Covers(r, m.dst, InstPoint_new_def(m.iix))

\* C20: a builder step on a record of another class (by its destination,
\* line 139) with an uncovered register never ends in the lookup failure: it
\* goes on to the next record without a failure, unless the build has debug
\* assertions and the record's source is not of its destination's class
\* (line 138); a lookup failure happens only at a reference-class record
\* with an uncovered register; and a completed analysis has marked what it
\* marks on the move list without such a record.
C20_NoLookupForOtherClass ==
    /\ [][(pc = "build" /\ mi <= Len(move_info)
              /\ ~is_reftype_move(move_info[mi]) /\ Uncovered(move_info[mi]))
            => /\ failure' # "lookup"
               /\ (debug_assertions
                     /\ move_info[mi].src.class # move_info[mi].dst.class)
                  \/ (pc' = "build" /\ failure' = "none" /\ mi' = mi + 1)]_vars
    /\ [](failure = "lookup" =>
             (pc = "panic" /\ is_reftype_move(move_info[mi])
                /\ Uncovered(move_info[mi])))
    /\ [](pc = "done" =>
             \A k \in 1 .. Len(move_info) :
                (~IsRefClass(move_info[k]) /\ Uncovered(move_info[k])) =>
                   MarkedSet =
                      ReachFrom(SeedSet, RefEdges(Without(move_info, k))))

\* The first invocation completed on a move list with an uncovered record of
\* another class, and marked a range that is not a seed.
C20_Witness ==
    /\ pc = "done"
    /\ run = 1
    /\ \E k \in 1 .. Len(move_info) :
          ~IsRefClass(move_info[k]) /\ Uncovered(move_info[k])
    /\ MarkedSet \ SeedSet # {}

====
